---- MODULE Spec2Model ----
(***************************************************************************)
(* A model of src/src/reduce.js: the generic reduce() kernel, the named    *)
(* reducers built on it, and the collaborators it calls (Tensor, squeeze,  *)
(* pow, validateReduceParams).  JavaScript arrays are objects: they live   *)
(* in `heap` and the program's variables hold references to them, so that  *)
(* aliasing (two names for one array) is something the model can express.  *)
(***************************************************************************)
EXTENDS Integers, Sequences, FiniteSets, TLC

VARIABLES
  heap,            \* the JavaScript arrays allocated so far, by reference
  input,           \* the caller's tensor: [shape |-> ref, data |-> ref]
  axes,            \* the caller's options.axes: a reference, or Absent
  keepDimensions,  \* the caller's options.keepDimensions
  kind,            \* which exported function the caller calls
  arg,             \* the tensor handed to reduce() (input, or pow(input, 2))
  inpAxes,         \* reduce(): reference of inpAxes
  outputShape,     \* reduce(): reference of outputShape
  reduceDims,      \* reduce(): reduceDims
  reduceElements,  \* reduce(): reduceElements
  reduceStrides,   \* reduce(): reduceStrides
  output,          \* reduce(): the output tensor, NoTensor before line 36
  outputIndex,     \* reduce(): the outer loop's counter
  valuesToReduce,  \* reduce(): the values collected for the last output
  intermediateResult, \* reduceL2(): what reduceSumSquare returned
  result,          \* the tensor returned to the caller, NoTensor if none
  error,           \* the error thrown to the caller, "" if none
  pc,              \* the position of the call
  reads,           \* number of input.getValueByLocation calls so far
  writes,          \* number of output.setValueByIndex calls so far
  combines,        \* number of calls of the combining function so far
  divisions,       \* number of divisions meanReducer made for this output
  squeezes,        \* number of squeeze() calls so far
  input0,          \* the caller's tensor as it was before the call
  axes0            \* the caller's axes as they were before the call

vars == <<heap, input, axes, keepDimensions, kind, arg, inpAxes, outputShape,
          reduceDims, reduceElements, reduceStrides, output, outputIndex,
          valuesToReduce, intermediateResult, result, error, pc, reads,
          writes, combines, divisions, squeezes, input0, axes0>>

-----------------------------------------------------------------------------
(* Bounds of the model *)

MaxRank == 3
MaxDim == 3
MaxElems == 6

-----------------------------------------------------------------------------
(* Numbers.  A JavaScript number is modelled exactly, as (n/d)^(1/r) with  *)
(* n/d in lowest terms, d > 0 and r = 1 (a rational) or r = 2 (the square  *)
(* root of a rational that is not a perfect square).  d = 0 is NaN.        *)

RECURSIVE Gcd(_, _)
Gcd(a, b) == IF b = 0 THEN a ELSE Gcd(b, a % b)

AbsInt(a) == IF a < 0 THEN -a ELSE a

Rat(n, d) ==
  IF d = 0 THEN [n |-> 0, d |-> 0, r |-> 1]
  ELSE LET g == Gcd(AbsInt(n), AbsInt(d))
           s == IF d < 0 THEN -1 ELSE 1
       IN  [n |-> s * (n \div g), d |-> s * (d \div g), r |-> 1]

Num(k) == [n |-> k, d |-> 1, r |-> 1]
NaN == [n |-> 0, d |-> 0, r |-> 1]
IsNaN(a) == a.d = 0 \/ a.r # 1

Add(a, b) == IF IsNaN(a) \/ IsNaN(b) THEN NaN
             ELSE Rat(a.n * b.d + b.n * a.d, a.d * b.d)
Mul(a, b) == IF IsNaN(a) \/ IsNaN(b) THEN NaN ELSE Rat(a.n * b.n, a.d * b.d)
DivInt(a, k) == IF IsNaN(a) THEN NaN ELSE Rat(a.n, a.d * k)
Less(a, b) == a.n * b.d < b.n * a.d
MathMax(a, b) == IF IsNaN(a) \/ IsNaN(b) THEN NaN ELSE IF Less(a, b) THEN b ELSE a
MathMin(a, b) == IF IsNaN(a) \/ IsNaN(b) THEN NaN ELSE IF Less(b, a) THEN b ELSE a

RECURSIVE ISqrtFrom(_, _)
ISqrtFrom(k, j) == IF (j + 1) * (j + 1) > k THEN j ELSE ISqrtFrom(k, j + 1)
ISqrt(k) == ISqrtFrom(k, 0)

(* Math.pow(a, 2) and Math.pow(a, 0.5) *)
MathPow2(a) == IF a.d = 0 THEN NaN
               ELSE IF a.r = 2 THEN [n |-> a.n, d |-> a.d, r |-> 1]
               ELSE Rat(a.n * a.n, a.d * a.d)
MathPowHalf(a) ==
  IF IsNaN(a) \/ a.n < 0 THEN NaN
  ELSE LET sn == ISqrt(a.n)
           sd == ISqrt(a.d)
       IN  IF sn * sn = a.n /\ sd * sd = a.d THEN Rat(sn, sd)
           ELSE [n |-> a.n, d |-> a.d, r |-> 2]

-----------------------------------------------------------------------------
(* JavaScript arrays, indexed from 0 *)

At(arr, i) == arr[i + 1]
Undefined == "undefined"

(* arr[i] = v: a negative i sets a property and leaves the elements alone, *)
(* an i past the end grows the array, leaving holes.                       *)
JsSetIndex(arr, i, v) ==
  IF i < 0 THEN arr
  ELSE [k \in 1..(IF i + 1 > Len(arr) THEN i + 1 ELSE Len(arr)) |->
          IF k = i + 1 THEN v
          ELSE IF k <= Len(arr) THEN arr[k] ELSE Undefined]

RECURSIVE InsertSorted(_, _)
InsertSorted(x, s) ==
  IF s = <<>> THEN <<x>>
  ELSE IF x <= Head(s) THEN <<x>> \o s
  ELSE <<Head(s)>> \o InsertSorted(x, Tail(s))

RECURSIVE SortAscending(_)
SortAscending(s) ==
  IF s = <<>> THEN <<>> ELSE InsertSorted(Head(s), SortAscending(Tail(s)))

-----------------------------------------------------------------------------
(* lib/tensor.js: a dense row-major tensor *)

RECURSIVE sizeOfShape(_)
sizeOfShape(shape) ==
  IF shape = <<>> THEN 1 ELSE Head(shape) * sizeOfShape(Tail(shape))

RECURSIVE locationFromIndex(_, _)
locationFromIndex(shape, index) ==
  IF shape = <<>> THEN <<>>
  ELSE LET inner == sizeOfShape(Tail(shape))
       IN  <<index \div inner>> \o locationFromIndex(Tail(shape), index % inner)

RECURSIVE indexFromLocation(_, _)
indexFromLocation(shape, location) ==
  IF shape = <<>> THEN 0
  ELSE Head(location) * sizeOfShape(Tail(shape))
         + indexFromLocation(Tail(shape), Tail(location))

ValidLocation(shape, location) ==
  /\ Len(location) = Len(shape)
  /\ \A k \in 1..Len(shape) : location[k] >= 0 /\ location[k] < shape[k]

getValueByLocation(shape, data, location) ==
  IF ValidLocation(shape, location)
    THEN At(data, indexFromLocation(shape, location))
    ELSE NaN

-----------------------------------------------------------------------------
(* The collaborators of reduce.js that are imported, not defined, there *)

(* lib/validate-input.js: "" when the axes are distinct indices of the    *)
(* input, the name of the error thrown otherwise.                         *)
validateReduceParams(rank, axs) ==
  IF \E i \in 1..Len(axs) : axs[i] < 0 \/ axs[i] >= rank THEN "ShapeError"
  ELSE IF \E i, j \in 1..Len(axs) : i # j /\ axs[i] = axs[j] THEN "ShapeError"
  ELSE ""

(* squeeze.js: the shape without its axes of size 1 *)
RECURSIVE squeezeShape(_)
squeezeShape(shape) ==
  IF shape = <<>> THEN <<>>
  ELSE IF Head(shape) = 1 THEN squeezeShape(Tail(shape))
  ELSE <<Head(shape)>> \o squeezeShape(Tail(shape))

(* binary.js: pow(tensor, new Scalar(2)) and pow(tensor, new Scalar(0.5)), *)
(* elementwise on the data; the shape is kept.                             *)
powData2(data) == [k \in 1..Len(data) |-> MathPow2(data[k])]
powDataHalf(data) == [k \in 1..Len(data) |-> MathPowHalf(data[k])]

-----------------------------------------------------------------------------
(* The reducers of reduce.js *)

(* the combining function an exported function hands to reduce(); reduceL2 *)
(* reaches reduce() through reduceSumSquare and reduceSum                 *)
ReducerOf(fn) == IF fn = "L2" THEN "sum" ELSE fn

maxReducer(previousValue, currentValue) == MathMax(previousValue, currentValue)

(* a mean that never takes its dividing branch *)
meanDividesPastEnd(currentIndex, array) == currentIndex = Len(array)

(* line 76: is this call of meanReducer the one that divides *)
meanDivides(currentIndex, array) == currentIndex = Len(array) - 1

meanReducer(previousValue, currentValue, currentIndex, array) ==
  IF meanDivides(currentIndex, array)
    THEN DivInt(Add(previousValue, currentValue), Len(array))
    ELSE Add(previousValue, currentValue)

minReducer(previousValue, currentValue) == MathMin(previousValue, currentValue)

productReducer(previousValue, currentValue) == Mul(previousValue, currentValue)

sumReducer(previousValue, currentValue) == Add(previousValue, currentValue)

reduceFunc(rk, previousValue, currentValue, currentIndex, array) ==
  CASE rk = "max" -> maxReducer(previousValue, currentValue)
    [] rk = "mean" -> meanReducer(previousValue, currentValue, currentIndex, array)
    [] rk = "min" -> minReducer(previousValue, currentValue)
    [] rk = "product" -> productReducer(previousValue, currentValue)
    [] OTHER -> sumReducer(previousValue, currentValue)

(* Array.prototype.reduce without an initial value: the accumulator starts *)
(* as element 0 and the callback is called for the indices 1 .. length-1.  *)
RECURSIVE ArrayReduceFrom(_, _, _, _)
ArrayReduceFrom(rk, array, acc, k) ==
  IF k >= Len(array) THEN acc
  ELSE ArrayReduceFrom(rk, array, reduceFunc(rk, acc, At(array, k), k, array), k + 1)

ArrayReduce(rk, array) ==
  IF array = <<>> THEN NaN ELSE ArrayReduceFrom(rk, array, At(array, 0), 1)

CallbackIndices(array) == 1..(Len(array) - 1)

-----------------------------------------------------------------------------
(* The stages of reduce(), as functions of the values they read *)

(* line 17: the default of an absent axes option *)
DefaultAxes(rank) == [i \in 1..rank |-> i - 1]

(* the loop writing at the loop counter instead of at the axis *)
RECURSIVE OutputShapeLoopByIndex(_, _, _)
OutputShapeLoopByIndex(shape, axs, i) ==
  IF i >= Len(axs) THEN shape
  ELSE OutputShapeLoopByIndex(JsSetIndex(shape, i, 1), axs, i + 1)

(* lines 20-22 *)
RECURSIVE OutputShapeLoop(_, _, _)
OutputShapeLoop(shape, axs, i) ==
  IF i >= Len(axs) THEN shape
  ELSE OutputShapeLoop(JsSetIndex(shape, At(axs, i), 1), axs, i + 1)

(* line 28 *)
reduceDimsOf(shape, axs) == [i \in 1..Len(axs) |-> At(shape, axs[i])]

(* strides multiplied by the extent of the same axis, not of the next one *)
RECURSIVE reduceStridesOwnDim(_)
reduceStridesOwnDim(dims) ==
  IF dims = <<>> THEN <<>>
  ELSE LET rest == reduceStridesOwnDim(Tail(dims))
       IN  IF rest = <<>> THEN <<1>> ELSE <<Head(rest) * dims[1]>> \o rest

(* lines 30-34 *)
RECURSIVE reduceStridesOf(_)
reduceStridesOf(dims) ==
  IF dims = <<>> THEN <<>>
  ELSE LET rest == reduceStridesOf(Tail(dims))
       IN  IF rest = <<>> THEN <<1>> ELSE <<Head(rest) * dims[2]>> \o rest

(* reduceDims taken from the axes before they are sorted *)
StridesStageDimsFirst(shape, axs) ==
  LET dims == reduceDimsOf(shape, axs)
  IN  [axes |-> SortAscending(axs), dims |-> dims, elements |-> sizeOfShape(dims),
       strides |-> reduceStridesOf(dims)]

(* lines 27-34: the sorted axes and the reduce descriptor derived from them *)
StridesStage(shape, axs) ==
  LET sorted == SortAscending(axs)
      dims == reduceDimsOf(shape, sorted)
  IN  [axes |-> sorted, dims |-> dims, elements |-> sizeOfShape(dims),
       strides |-> reduceStridesOf(dims)]

(* lines 42-48: the input location of reduce index r for an output index, *)
(* with what is left of remainingReduceIndex                              *)
RECURSIVE DecomposeLoop(_, _, _, _, _)
DecomposeLoop(location, remaining, axs, strides, i) ==
  IF i >= Len(axs) THEN [location |-> location, remaining |-> remaining]
  ELSE LET q == remaining \div At(strides, i)
       IN  DecomposeLoop(JsSetIndex(location, At(axs, i), q),
                         remaining - q * At(strides, i), axs, strides, i + 1)

inputLocationOf(outShape, oi, r, axs, strides) ==
  DecomposeLoop(locationFromIndex(outShape, oi), r, axs, strides, 0)

(* a scalar branch that forgets the root *)
reduceL2ResultNoRoot(shape, data) ==
  IF Len(shape) = 0
    THEN [shape |-> <<>>, data |-> <<At(data, 0)>>]
    ELSE [shape |-> shape, data |-> powDataHalf(data)]

(* lines 154-160: reduceL2's result from reduceSumSquare's *)
reduceL2Result(shape, data) ==
  IF Len(shape) = 0
    THEN [shape |-> <<>>, data |-> <<MathPowHalf(At(data, 0))>>]
    ELSE [shape |-> shape, data |-> powDataHalf(data)]

(* an inner loop that stops one element early *)
valuesToReduceShort(inShape, inData, outShape, oi, axs, strides, n) ==
  [k \in 1..(n - 1) |->
     getValueByLocation(inShape, inData,
                        inputLocationOf(outShape, oi, k - 1, axs, strides).location)]

(* lines 38-50 *)
valuesToReduceOf(inShape, inData, outShape, oi, axs, strides, n) ==
  [k \in 1..n |->
     getValueByLocation(inShape, inData,
                        inputLocationOf(outShape, oi, k - 1, axs, strides).location)]

(* lines 16-59: what reduce() returns for valid axes, as a value *)
reduceValue(shape, data, rk, axs, keep) ==
  LET outShape == OutputShapeLoop(shape, axs, 0)
      st == StridesStage(shape, axs)
      outData == [k \in 1..sizeOfShape(outShape) |->
                    ArrayReduce(rk, valuesToReduceOf(shape, data, outShape, k - 1,
                                                     st.axes, st.strides,
                                                     st.elements))]
  IN  [shape |-> IF keep THEN outShape ELSE squeezeShape(outShape),
       data |-> outData]

-----------------------------------------------------------------------------
(* Objects and references *)

Absent == 0
NoTensor == [shape |-> 0, data |-> 0]

(* the reference a new array gets, and the heap with `arr` stored at `ref` *)
NewRef(h) == Len(h) + 1
Store(h, ref, arr) ==
  IF ref = Len(h) + 1 THEN Append(h, arr) ELSE [h EXCEPT ![ref] = arr]

(* no slice(): outputShape is input.shape itself *)
SliceRefAlias(h, src) == src

(* line 19, input.shape.slice(): the reference of the copy *)
SliceRef(h, src) == NewRef(h)

(* an empty axes array taken for an absent one *)
InpAxesRefEmptyIsAbsent(h, axesRef) ==
  IF axesRef # Absent /\ h[axesRef] # <<>> THEN axesRef ELSE NewRef(h)

(* line 17, axes ?? ...: the caller's array itself when there is one *)
InpAxesRef(h, axesRef) == IF axesRef # Absent THEN axesRef ELSE NewRef(h)

(* new Array(n): n holes, which read as undefined (NaN in arithmetic) *)
NewArray(n) == [k \in 1..n |-> NaN]

(* the output tensor constructed before the parameters are validated *)
SuccAllocFirst(p) ==
  CASE p = "call" -> "alloc"
    [] p = "alloc" -> "validate"
    [] p = "validate" -> "strides"
    [] p = "strides" -> "loop"
    [] p = "loop" -> "return"
    [] OTHER -> "done"

(* the statements of reduce() in the order they run *)
Succ(p) ==
  CASE p = "call" -> "validate"
    [] p = "validate" -> "strides"
    [] p = "strides" -> "alloc"
    [] p = "alloc" -> "loop"
    [] p = "loop" -> "return"
    [] OTHER -> "done"

-----------------------------------------------------------------------------
(* The calls the model makes *)

Kinds == {"max", "mean", "min", "product", "sum", "L2"}

Fills == {"ramp", "negabinary"}

RECURSIVE Power(_, _)
Power(b, e) == IF e = 0 THEN 1 ELSE b * Power(b, e - 1)

(* the value of element i of the input, in row-major order: 1, 2, 3, ...   *)
(* or 1, -2, 4, -8, ... (mixed signs, and no two subsets with one sum)     *)
FillValue(fill, i) == IF fill = "ramp" THEN Num(i + 1) ELSE Num(Power(-2, i))

Shapes ==
  {s \in UNION {[1..n -> 1..MaxDim] : n \in 0..MaxRank} : sizeOfShape(s) <= MaxElems}

IsValidAxes(rank, axs) == validateReduceParams(rank, axs) = ""

(* every valid axes sequence, and the invalid ones of one or two entries *)
(* (an index of -1 or rank, or the same index twice)                     *)
AxesChoices(rank) ==
  {a \in UNION {[1..n -> 0..(rank - 1)] : n \in 0..rank} : IsValidAxes(rank, a)}
    \cup {a \in [1..1 -> (-1)..rank] \cup [1..2 -> (-1)..rank] :
            ~IsValidAxes(rank, a)}

Init ==
  \E shape \in Shapes, hasAxes \in BOOLEAN :
  \E axs \in (IF hasAxes THEN AxesChoices(Len(shape)) ELSE {<<>>}) :
  \E fill \in Fills, fn \in Kinds, keep \in BOOLEAN :
    LET data == [k \in 1..sizeOfShape(shape) |-> FillValue(fill, k - 1)]
    IN  /\ heap = IF hasAxes THEN <<shape, data, axs>> ELSE <<shape, data>>
        /\ input = [shape |-> 1, data |-> 2]
        /\ axes = IF hasAxes THEN 3 ELSE Absent
        /\ keepDimensions = keep
        /\ kind = fn
        /\ arg = NoTensor
        /\ inpAxes = Absent
        /\ outputShape = Absent
        /\ reduceDims = <<>>
        /\ reduceElements = 0
        /\ reduceStrides = <<>>
        /\ output = NoTensor
        /\ outputIndex = 0
        /\ valuesToReduce = <<>>
        /\ intermediateResult = NoTensor
        /\ result = NoTensor
        /\ error = ""
        /\ pc = "call"
        /\ reads = 0
        /\ writes = 0
        /\ combines = 0
        /\ divisions = 0
        /\ squeezes = 0
        /\ input0 = [shape |-> shape, data |-> data]
        /\ axes0 = axs

-----------------------------------------------------------------------------
(* The steps of a call *)

(* The exported function is entered (reduceL2 calls reduceSumSquare, which *)
(* squares the input first, lines 153 and 133) and reduce() runs lines     *)
(* 16-22.                                                                  *)
Call ==
  /\ pc = "call"
  /\ LET squared == kind = "L2"
         h1 == IF squared
                 THEN Append(Append(heap, heap[input.shape]),
                             powData2(heap[input.data]))
                 ELSE heap
         a == IF squared THEN [shape |-> Len(heap) + 1, data |-> Len(heap) + 2]
              ELSE input
         ia == InpAxesRef(h1, axes)
         h2 == IF ia = axes THEN h1
               ELSE Store(h1, ia, DefaultAxes(Len(h1[a.shape])))
         os == SliceRef(h2, a.shape)
         h3 == Store(h2, os, h2[a.shape])
         h4 == Store(h3, os, OutputShapeLoop(h3[os], h3[ia], 0))
     IN  /\ arg' = a
         /\ inpAxes' = ia
         /\ outputShape' = os
         /\ heap' = h4
  /\ pc' = Succ(pc)
  /\ UNCHANGED <<input, axes, keepDimensions, kind, reduceDims, reduceElements,
                 reduceStrides, output, outputIndex, valuesToReduce,
                 intermediateResult, result, error, reads, writes, combines,
                 divisions, squeezes, input0, axes0>>

(* line 24 *)
Validate ==
  /\ pc = "validate"
  /\ LET e == validateReduceParams(Len(heap[arg.shape]), heap[inpAxes])
     IN  /\ error' = e
         /\ pc' = IF e # "" THEN "thrown" ELSE Succ(pc)
  /\ UNCHANGED <<heap, input, axes, keepDimensions, kind, arg, inpAxes,
                 outputShape, reduceDims, reduceElements, reduceStrides, output,
                 outputIndex, valuesToReduce, intermediateResult, result, reads,
                 writes, combines, divisions, squeezes, input0, axes0>>

(* lines 27-34 *)
Strides ==
  /\ pc = "strides"
  /\ LET st == StridesStage(heap[arg.shape], heap[inpAxes])
     IN  /\ heap' = [heap EXCEPT ![inpAxes] = st.axes]
         /\ reduceDims' = st.dims
         /\ reduceElements' = st.elements
         /\ reduceStrides' = st.strides
  /\ pc' = Succ(pc)
  /\ UNCHANGED <<input, axes, keepDimensions, kind, arg, inpAxes, outputShape,
                 output, outputIndex, valuesToReduce, intermediateResult, result,
                 error, reads, writes, combines, divisions, squeezes, input0,
                 axes0>>

(* line 36, new Tensor(outputShape): the tensor copies the shape and gets *)
(* a data array of sizeOfShape(shape) elements                            *)
Alloc ==
  /\ pc = "alloc"
  /\ LET shp == heap[outputShape]
     IN  /\ heap' = Append(Append(heap, shp), NewArray(sizeOfShape(shp)))
         /\ output' = [shape |-> Len(heap) + 1, data |-> Len(heap) + 2]
  /\ outputIndex' = 0
  /\ pc' = Succ(pc)
  /\ UNCHANGED <<input, axes, keepDimensions, kind, arg, inpAxes, outputShape,
                 reduceDims, reduceElements, reduceStrides, valuesToReduce,
                 intermediateResult, result, error, reads, writes, combines,
                 divisions, squeezes, input0, axes0>>

(* lines 37-53: one iteration of the outer loop *)
ReduceOne ==
  /\ pc = "loop"
  /\ outputIndex < sizeOfShape(heap[outputShape])
  /\ LET values == valuesToReduceOf(heap[arg.shape], heap[arg.data],
                                    heap[output.shape], outputIndex,
                                    heap[inpAxes], reduceStrides, reduceElements)
         rk == ReducerOf(kind)
         outputValue == ArrayReduce(rk, values)
     IN  /\ valuesToReduce' = values
         /\ heap' = [heap EXCEPT ![output.data] =
                       JsSetIndex(heap[output.data], outputIndex, outputValue)]
         /\ reads' = reads + Len(values)
         /\ combines' = combines + Cardinality(CallbackIndices(values))
         /\ divisions' = Cardinality({k \in CallbackIndices(values) :
                                        rk = "mean" /\ meanDivides(k, values)})
  /\ writes' = writes + 1
  /\ outputIndex' = outputIndex + 1
  /\ pc' = IF outputIndex + 1 < sizeOfShape(heap[outputShape]) THEN pc ELSE Succ(pc)
  /\ UNCHANGED <<input, axes, keepDimensions, kind, arg, inpAxes, outputShape,
                 reduceDims, reduceElements, reduceStrides, output,
                 intermediateResult, result, error, squeezes, input0, axes0>>

(* lines 55-58, and what the exported function does with reduce()'s result *)
(* (reduceL2, lines 154-160)                                                *)
Return ==
  /\ pc = "return"
  /\ LET h1 == IF keepDimensions THEN heap
               ELSE Append(Append(heap, squeezeShape(heap[output.shape])),
                           heap[output.data])
         out == IF keepDimensions THEN output
                ELSE [shape |-> Len(heap) + 1, data |-> Len(heap) + 2]
         isL2 == kind = "L2"
         l2 == reduceL2Result(h1[out.shape], h1[out.data])
         h2 == IF isL2 THEN Append(Append(h1, l2.shape), l2.data) ELSE h1
     IN  /\ heap' = h2
         /\ intermediateResult' = IF isL2 THEN out ELSE NoTensor
         /\ result' = IF isL2 THEN [shape |-> Len(h1) + 1, data |-> Len(h1) + 2]
                      ELSE out
  /\ squeezes' = IF keepDimensions THEN squeezes ELSE squeezes + 1
  /\ pc' = Succ(pc)
  /\ UNCHANGED <<input, axes, keepDimensions, kind, arg, inpAxes, outputShape,
                 reduceDims, reduceElements, reduceStrides, output, outputIndex,
                 valuesToReduce, error, reads, writes, combines, divisions,
                 input0, axes0>>

Next == Call \/ Validate \/ Strides \/ Alloc \/ ReduceOne \/ Return

Spec == Init /\ [][Next]_vars

-----------------------------------------------------------------------------
(* What the call was made with, and the mathematics the results are        *)
(* compared with.  Nothing below uses the operators that model the code,   *)
(* except where a formula says so.                                         *)

Rank0 == Len(input0.shape)
AllAxes == 0..(Rank0 - 1)
AxisSet == IF axes = Absent THEN AllAxes ELSE {axes0[i] : i \in 1..Len(axes0)}

AxesAreValid ==
  /\ \A i \in 1..Len(axes0) : axes0[i] \in AllAxes
  /\ \A i, j \in 1..Len(axes0) : i # j => axes0[i] # axes0[j]

(* every coordinate tuple inside a shape *)
RECURSIVE Locations(_)
Locations(shape) ==
  IF shape = <<>> THEN {<<>>}
  ELSE {<<c>> \o t : c \in 0..(Head(shape) - 1), t \in Locations(Tail(shape))}

LexLess(l, m) ==
  \E k \in 1..Len(l) : l[k] < m[k] /\ \A j \in 1..(k - 1) : l[j] = m[j]

(* the row-major flat index of a location: how many locations precede it *)
FlatIndex(shape, l) == Cardinality({m \in Locations(shape) : LexLess(m, l)})

Product(shape, S) ==
  LET P[k \in 0..Len(shape)] ==
        IF k = 0 THEN 1 ELSE (IF (k - 1) \in S THEN shape[k] ELSE 1) * P[k - 1]
  IN  P[Len(shape)]

(* the input shape with every reduced axis set to 1 *)
KeptShape == [k \in 1..Rank0 |-> IF (k - 1) \in AxisSet THEN 1 ELSE input0.shape[k]]
NotOne(d) == d # 1
SqueezedShape == SelectSeq(KeptShape, NotOne)

(* the input locations that agree with output location o off the reduced axes *)
Group(o) ==
  {l \in Locations(input0.shape) :
     \A k \in 1..Rank0 : (k - 1) \notin AxisSet => l[k] = o[k]}

Input0At(l) == input0.data[FlatIndex(input0.shape, l) + 1].n

RECURSIVE SumOver(_)
SumOver(S) ==
  IF S = {} THEN 0
  ELSE LET l == CHOOSE x \in S : TRUE IN Input0At(l) + SumOver(S \ {l})

RECURSIVE SumSquaresOver(_)
SumSquaresOver(S) ==
  IF S = {} THEN 0
  ELSE LET l == CHOOSE x \in S : TRUE
       IN  Input0At(l) * Input0At(l) + SumSquaresOver(S \ {l})

(* the elements of a set of integers in ascending order *)
RECURSIVE Ascending(_)
Ascending(S) ==
  IF S = {} THEN <<>>
  ELSE LET m == CHOOSE x \in S : \A y \in S : x <= y
       IN  <<m>> \o Ascending(S \ {m})

Integer(k) == [n |-> k, d |-> 1, r |-> 1]

(* the value reduce() wrote for output location o *)
OutputAt(o) == heap[output.data][FlatIndex(KeptShape, o) + 1]

(* what reduce() returned (reduceL2 post-processes it) *)
Returned == IF kind = "L2" THEN intermediateResult ELSE result

-----------------------------------------------------------------------------
(* C1: reduceSum writes at every output location the sum of exactly the    *)
(* input elements that agree with it on every axis not reduced, each once: *)
(* every input element is read once, the returned values are the written   *)
(* ones, and reducing all axes gives the sum of all elements.              *)
C1_SumOfGroup ==
  (pc = "done" /\ kind = "sum") =>
    /\ \A o \in Locations(KeptShape) : OutputAt(o) = Integer(SumOver(Group(o)))
    /\ Len(heap[output.data]) = Cardinality(Locations(KeptShape))
    /\ reads = Cardinality(Locations(input0.shape))
    /\ heap[result.data] = heap[output.data]
    /\ AxisSet = AllAxes =>
         heap[result.data] = <<Integer(SumOver(Locations(input0.shape)))>>

(* reduceSum([[1,2,3],[4,5,6]], {axes: [1]}) returned shape [2], [6, 15] *)
C1_Witness ==
  /\ pc = "done" /\ kind = "sum" /\ ~keepDimensions
  /\ input0.shape = <<2, 3>>
  /\ axes # Absent /\ axes0 = <<1>>
  /\ heap[result.shape] = <<2>>
  /\ heap[result.data] = <<Integer(6), Integer(15)>>

(* C2: with keepDimensions the returned shape is the input shape with      *)
(* every reduced axis set to 1 (same rank); without it, that shape with    *)
(* every size-1 axis removed, reduced or not; all axes reduced gives       *)
(* rank 0.                                                                 *)
C2_ReturnedShape ==
  pc = "done" =>
    /\ keepDimensions => heap[Returned.shape] = KeptShape
    /\ ~keepDimensions => heap[Returned.shape] = SqueezedShape
    /\ (~keepDimensions /\ AxisSet = AllAxes) => heap[Returned.shape] = <<>>

(* a size-1 axis that was not reduced is removed too: [2,1,3] over axis 0 *)
C2_Witness ==
  /\ pc = "done" /\ ~keepDimensions /\ axes # Absent
  /\ input0.shape = <<2, 1, 3>> /\ axes0 = <<0>>
  /\ heap[result.shape] = <<3>>

(* C3: every value of reduceMean is the sum of its group divided by the    *)
(* product of the reduced extents, also when that product is 1 (then the   *)
(* combining function is never called); otherwise the division is made     *)
(* once per output, by the last call of the combining function.            *)
C3_MeanIsSumOverCount ==
  (kind = "mean" /\ pc \in {"loop", "return", "done"} /\ outputIndex > 0) =>
    LET count == Product(input0.shape, AxisSet)
    IN  /\ \A o \in Locations(KeptShape) :
             FlatIndex(KeptShape, o) < outputIndex =>
               LET v == OutputAt(o)
               IN  /\ v.r = 1 /\ v.d > 0
                   /\ v.n * count = SumOver(Group(o)) * v.d
                   /\ FlatIndex(KeptShape, o) = outputIndex - 1 =>
                        v = DivInt(ArrayReduce("sum", valuesToReduce), count)
        /\ reduceElements = count
        /\ count = 1 => (divisions = 0 /\ combines = 0)
        /\ count > 1 => (divisions = 1 /\ combines = outputIndex * (count - 1))

(* reduceMean([[1,2,3],[4,5,6]], {axes: [0,1]}) returned the scalar 3.5 *)
C3_Witness ==
  /\ pc = "done" /\ kind = "mean" /\ ~keepDimensions
  /\ input0.shape = <<2, 3>>
  /\ axes # Absent /\ axes0 = <<0, 1>>
  /\ heap[result.shape] = <<>>
  /\ heap[result.data] = <<[n |-> 7, d |-> 2, r |-> 1]>>
  /\ divisions = 1

(* C4: a call whose axes hold an index outside [0, rank) or a duplicate    *)
(* fails with ShapeError before the output tensor is constructed: nothing  *)
(* is read from the input or written to an output, squeeze is not called   *)
(* and nothing is returned.                                                *)
C4_FailsBeforeOutput ==
  /\ ~AxesAreValid =>
       /\ pc \in {"call", "validate", "thrown"}
       /\ output = NoTensor /\ result = NoTensor
       /\ reads = 0 /\ writes = 0 /\ squeezes = 0
  /\ pc = "thrown" => (error = "ShapeError" /\ ~AxesAreValid)
  /\ AxesAreValid => error = ""

(* axis 2 on a rank-2 input *)
C4_Witness ==
  /\ pc = "thrown" /\ error = "ShapeError"
  /\ input0.shape = <<2, 3>> /\ axes0 = <<2>>

(* C5: the input tensor's shape and elements are never changed, whether    *)
(* the call returns or fails, and the returned tensor shares no array with *)
(* the input, also when the axes are empty and the values pass through.    *)
C5_InputUntouched ==
  /\ heap[input.shape] = input0.shape
  /\ heap[input.data] = input0.data
  /\ pc = "done" =>
       /\ result # NoTensor
       /\ {result.shape, result.data} \cap {input.shape, input.data} = {}
       /\ {output.shape, output.data} \cap {input.shape, input.data} = {}

(* empty axes, dimensions kept: the values pass through into a new tensor *)
C5_Witness ==
  /\ pc = "done" /\ keepDimensions /\ kind = "max"
  /\ axes # Absent /\ axes0 = <<>>
  /\ input0.shape = <<2, 3>>
  /\ heap[result.data] = input0.data /\ heap[result.shape] = input0.shape
  /\ result.data # input.data /\ result.shape # input.shape

(* C6: sum, product, max, min and mean return the same shape and values    *)
(* whatever the order the axes are given in: what a call returned is what  *)
(* reduce() returns for the same axes in ascending order, which is the     *)
(* same sequence for every permutation of an axis set.                     *)
C6_AxisOrderIrrelevant ==
  (pc = "done" /\ axes # Absent /\ kind # "L2") =>
    reduceValue(input0.shape, input0.data, kind, Ascending(AxisSet), keepDimensions)
      = [shape |-> heap[result.shape], data |-> heap[result.data]]

(* axes given in descending order, over extents that differ *)
C6_Witness ==
  /\ pc = "done" /\ kind = "mean" /\ keepDimensions
  /\ input0.shape = <<2, 1, 3>> /\ axes # Absent /\ axes0 = <<2, 0>>
  /\ heap[result.shape] = <<1, 1, 1>>

(* C7: reduceL2 returns the shape reduceSumSquare returned, and each of    *)
(* its elements is the non-negative square root of the corresponding       *)
(* element, which is the sum of the squares of the group; a rank-0 result  *)
(* of reduceSumSquare gives a rank-0 result.                               *)
C7_L2IsRootOfSumSquare ==
  (pc = "done" /\ kind = "L2") =>
    LET sq == heap[intermediateResult.data]
        l2 == heap[result.data]
    IN  /\ heap[result.shape] = heap[intermediateResult.shape]
        /\ heap[result.shape] = IF keepDimensions THEN KeptShape ELSE SqueezedShape
        /\ Len(l2) = Len(sq)
        /\ \A o \in Locations(KeptShape) :
             LET k == FlatIndex(KeptShape, o) + 1
                 v == l2[k]
             IN  /\ sq[k] = Integer(SumSquaresOver(Group(o)))
                 /\ v.d = 1 /\ v.n >= 0
                 /\ \/ v.r = 1 /\ v.n * v.n = sq[k].n
                    \/ v.r = 2 /\ v.n = sq[k].n

(* the scalar path: [1, 2] over all axes gives the rank-0 sqrt(5) *)
C7_Witness ==
  /\ pc = "done" /\ kind = "L2" /\ ~keepDimensions
  /\ input0.shape = <<2>> /\ axes = Absent
  /\ heap[intermediateResult.shape] = <<>>
  /\ heap[intermediateResult.data] = <<Integer(5)>>
  /\ heap[result.shape] = <<>>
  /\ heap[result.data] = <<[n |-> 5, d |-> 1, r |-> 2]>>

(* the elementwise path: [[1,2],[3,4]] over axis 1 gives [sqrt(5), 5] *)
C7_WitnessElementwise ==
  /\ pc = "done" /\ kind = "L2" /\ ~keepDimensions
  /\ input0.shape = <<2, 2>>
  /\ axes # Absent /\ axes0 = <<1>>
  /\ heap[result.data] = <<[n |-> 5, d |-> 1, r |-> 2], Integer(5)>>

(* C8: absent axes reduce over all axes 0..rank-1; empty axes reduce over  *)
(* none: reduceElements is 1, the combining function is never called, and  *)
(* the values returned are the input's, in the input's shape when the      *)
(* dimensions are kept.                                                    *)
C8_AbsentIsAllEmptyIsNone ==
  /\ (axes = Absent /\ pc # "call") =>
       heap[inpAxes] = [i \in 1..Rank0 |-> i - 1]
  /\ (axes = Absent /\ pc = "done") =>
       /\ reduceElements = Len(input0.data)
       /\ Len(heap[result.data]) = 1
       /\ combines = Len(input0.data) - 1
  /\ (axes # Absent /\ axes0 = <<>> /\ pc # "call") => heap[inpAxes] = <<>>
  /\ (axes # Absent /\ axes0 = <<>> /\ pc = "done") =>
       /\ reduceElements = 1
       /\ combines = 0
       /\ kind # "L2" => heap[result.data] = input0.data
       /\ keepDimensions => heap[result.shape] = input0.shape

(* reduceMean with axes: [] and dimensions kept *)
C8_Witness ==
  /\ pc = "done" /\ kind = "mean" /\ keepDimensions
  /\ axes # Absent /\ axes0 = <<>>
  /\ input0.shape = <<2, 3>>
  /\ heap[result.data] = input0.data

(* C9: reduceStrides is the right-to-left cumulative product of            *)
(* reduceDims; decomposing any reduce index r with it gives every reduced  *)
(* axis a coordinate inside the input and leaves remainder 0; ascending r  *)
(* walks the coordinate tuples in row-major order over the ascending       *)
(* reduced axes (so distinct r give distinct tuples); and valuesToReduce   *)
(* holds at position i the input value at the location of reduce index i.  *)
C9_MixedRadixDecomposition ==
  pc \in {"loop", "return", "done"} =>
    LET axs == heap[inpAxes]
        n == Len(axs)
        oi == IF outputIndex > 0 THEN outputIndex - 1 ELSE 0
        R == 0..(reduceElements - 1)
    IN  /\ \A i \in 1..(n - 1) : axs[i] < axs[i + 1]
        /\ Len(reduceStrides) = n
        /\ n > 0 => reduceStrides[n] = 1
        /\ \A i \in 1..(n - 1) :
             reduceStrides[i] = reduceStrides[i + 1] * reduceDims[i + 1]
        /\ \A D \in {[r \in R |-> inputLocationOf(heap[output.shape], oi, r, axs,
                                                  reduceStrides)]} :
           \A Tuple \in {[r \in R |-> [i \in 1..n |-> D[r].location[axs[i] + 1]]]} :
             /\ \A r \in R :
                  /\ D[r].remaining = 0
                  /\ \A i \in 1..n :
                       Tuple[r][i] >= 0 /\ Tuple[r][i] < input0.shape[axs[i] + 1]
             /\ \A r1, r2 \in R : r1 < r2 => LexLess(Tuple[r1], Tuple[r2])
             /\ outputIndex > 0 =>
                  /\ Len(valuesToReduce) = reduceElements
                  /\ \A r \in R :
                       valuesToReduce[r + 1] =
                         heap[arg.data][FlatIndex(input0.shape, D[r].location) + 1]

(* two reduced axes of extents 2 and 3 around a kept one *)
C9_Witness ==
  /\ pc = "loop" /\ outputIndex = 0
  /\ reduceDims = <<2, 3>> /\ reduceStrides = <<3, 1>>
  /\ heap[inpAxes] = <<0, 2>>

(* C10: the caller's axes array holds after the call what it held before *)
C10_AxesUnchanged ==
  (pc = "done" /\ axes # Absent) => heap[axes] = axes0

====
